---- MODULE Spec2Model ----
(***************************************************************************)
(* A model of the smart-pointers crate: Cell (src/src/cell.rs), RefCell    *)
(* with its guards Ref and RefMut (src/src/refcell.rs) and Rc              *)
(* (src/src/rc.rs).  The crate is single threaded (Cell is !Sync), so      *)
(* every method call is one atomic step.                                   *)
(***************************************************************************)
EXTENDS Integers, FiniteSets, Sequences, TLC

(***************************************************************************)
(* Bounds of the model.                                                    *)
(***************************************************************************)
\* Guard variables the client program has (each holds at most one guard).
MaxGuards == 3
\* Payload values are drawn from 0..MaxValue.
MaxValue  == 2
\* Width of usize in the model, in bits.
UsizeBits == 4
\* Rc variables the client program has (each holds at most one Rc).
MaxRcs    == 3
\* Heap addresses the allocator hands out.
MaxBlocks == 2
\* Rc::clone calls per block.
MaxClones == 2
\* Rc payload values are drawn from 0..MaxPayload.
MaxPayload == 1
\* The values kept in the stand-alone Cell are drawn from 0..MaxCellValue.
MaxCellValue == 5

GuardIds     == 1..MaxGuards
RcIds        == 1..MaxRcs
Addrs        == 1..MaxBlocks
Payloads     == 0..MaxPayload
Values       == 0..MaxValue
CellValues   == 0..MaxCellValue
UsizeModulus == 2^UsizeBits

VARIABLES
    state,      \* RefCell.state : Cell<RefState>
    value,      \* RefCell.value : UnsafeCell<T>, the wrapped payload
    guards,     \* the client's guard variables: "None", "Ref" or "RefMut"
    panicked,   \* an unreachable!() was executed
    last,       \* the last call made on the RefCell and what it returned
    prev,       \* the call made before it
    written,    \* the payload last stored in the RefCell, and the guard that stored it
    heap,       \* the heap: per address, whether a RcInner is allocated there and its fields
    rcs,        \* the client's Rc variables: Rc.inner, or 0 when the variable holds no Rc
    origin,     \* per Rc variable, the block its instance was made for: the block's
                \* address, Dangling once that block is deallocated, 0 for no instance
    frees,      \* per address, the deallocations of the block last allocated there
    clones,     \* per address, the clone calls on the block allocated there now
    drops,      \* per address, the drop calls on the block allocated there now
    ub,         \* a deallocated block was read, written or freed
    rcLast,     \* the last call made on an Rc and what it did
    cell,       \* a stand-alone Cell<T>, T: Copy
    cellSet,    \* the value Cell::new or the last Cell::set was given
    cellLast,   \* the last call made on the Cell and what it returned
    cellPrev    \* the call made before it

refVars == <<state, value, guards, panicked, last, prev, written>>
rcVars  == <<heap, rcs, origin, frees, clones, drops, ub, rcLast>>
cellVars == <<cell, cellSet, cellLast, cellPrev>>
vars    == <<state, value, guards, panicked, last, prev, written,
             heap, rcs, origin, frees, clones, drops, ub, rcLast,
             cell, cellSet, cellLast, cellPrev>>

(***************************************************************************)
(* usize arithmetic.                                                       *)
(***************************************************************************)
usize_add(a, b) == (a + b) % UsizeModulus
usize_sub(a, b) == (a - b + UsizeModulus) % UsizeModulus

(***************************************************************************)
(* cell.rs: Cell<T>                                                        *)
(***************************************************************************)
Cell_new(v)    == [value |-> v]
\* Mutant: set drops the value it was given.
Cell_set_lost(c, v) == c

Cell_set(c, v) == [c EXCEPT !.value = v]
Cell_get(c)    == c.value

(***************************************************************************)
(* refcell.rs: enum RefState                                               *)
(***************************************************************************)
Unused    == [tag |-> "Unused",    n |-> 0]
Shared(k) == [tag |-> "Shared",    n |-> k]
Exclusive == [tag |-> "Exclusive", n |-> 0]

(***************************************************************************)
(* refcell.rs: the methods as functions of the state cell.  Each returns   *)
(* the state cell after the call and what the call returned.               *)
(***************************************************************************)
\* Mutant: a second shared borrow does not count itself.
RefCell_borrow_nocount(st) ==
    LET s == Cell_get(st) IN
    CASE s.tag = "Unused"    -> [state |-> Cell_set(st, Shared(1)), some |-> TRUE]
      [] s.tag = "Shared"    -> [state |-> Cell_set(st, Shared(s.n)), some |-> TRUE]
      [] s.tag = "Exclusive" -> [state |-> st, some |-> FALSE]

\* Mutant: a shared borrow is granted while the cell is exclusively borrowed.
RefCell_borrow_overexcl(st) ==
    LET s == Cell_get(st) IN
    CASE s.tag = "Unused"    -> [state |-> Cell_set(st, Shared(1)), some |-> TRUE]
      [] s.tag = "Shared"    -> [state |-> Cell_set(st, Shared(usize_add(s.n, 1))),
                                 some  |-> TRUE]
      [] s.tag = "Exclusive" -> [state |-> Cell_set(st, Shared(1)), some |-> TRUE]

RefCell_borrow(st) ==
    LET s == Cell_get(st) IN
    CASE s.tag = "Unused"    -> [state |-> Cell_set(st, Shared(1)), some |-> TRUE]
      [] s.tag = "Shared"    -> [state |-> Cell_set(st, Shared(usize_add(s.n, 1))),
                                 some  |-> TRUE]
      [] s.tag = "Exclusive" -> [state |-> st, some |-> FALSE]

\* Mutant: an exclusive borrow is granted over outstanding shared borrows.
RefCell_borrow_mut_overshared(st) ==
    LET s == Cell_get(st) IN
    CASE s.tag = "Unused"    -> [state |-> Cell_set(st, Exclusive), some |-> TRUE]
      [] s.tag = "Shared"    -> [state |-> Cell_set(st, Exclusive), some |-> TRUE]
      [] s.tag = "Exclusive" -> [state |-> st, some |-> FALSE]

\* Mutant: an exclusive borrow is granted a second time.
RefCell_borrow_mut_twice(st) ==
    LET s == Cell_get(st) IN
    CASE s.tag = "Unused"    -> [state |-> Cell_set(st, Exclusive), some |-> TRUE]
      [] s.tag = "Shared"    -> [state |-> st, some |-> FALSE]
      [] s.tag = "Exclusive" -> [state |-> Cell_set(st, Exclusive), some |-> TRUE]

\* Mutant: the state is set before the check, so a denied call leaves Exclusive.
RefCell_borrow_mut_dirty(st) ==
    LET s == Cell_get(st) IN
    CASE s.tag = "Unused"    -> [state |-> Cell_set(st, Exclusive), some |-> TRUE]
      [] s.tag = "Shared"    -> [state |-> Cell_set(st, Exclusive), some |-> FALSE]
      [] s.tag = "Exclusive" -> [state |-> st, some |-> FALSE]

RefCell_borrow_mut(st) ==
    LET s == Cell_get(st) IN
    CASE s.tag = "Unused"    -> [state |-> Cell_set(st, Exclusive), some |-> TRUE]
      [] s.tag = "Shared"    -> [state |-> st, some |-> FALSE]
      [] s.tag = "Exclusive" -> [state |-> st, some |-> FALSE]

\* Mutant: no arm for Shared(1), the last shared guard leaves Shared(0).
Ref_drop_noarm(st) ==
    LET s == Cell_get(st) IN
    CASE s.tag = "Unused"    -> [state |-> st, panic |-> TRUE]
      [] s.tag = "Shared"    -> [state |-> Cell_set(st, Shared(usize_sub(s.n, 1))),
                                 panic |-> FALSE]
      [] s.tag = "Exclusive" -> [state |-> st, panic |-> TRUE]

\* Mutant: any shared guard's drop releases the whole cell.
Ref_drop_release_all(st) ==
    LET s == Cell_get(st) IN
    CASE s.tag = "Unused"    -> [state |-> st, panic |-> TRUE]
      [] s.tag = "Shared"    -> [state |-> Cell_set(st, Unused), panic |-> FALSE]
      [] s.tag = "Exclusive" -> [state |-> st, panic |-> TRUE]

\* Mutant: the drop of the last shared guard does not restore Unused.
Ref_drop_keep(st) ==
    LET s == Cell_get(st) IN
    CASE s.tag = "Unused"              -> [state |-> st, panic |-> TRUE]
      [] s.tag = "Shared" /\ s.n = 1   -> [state |-> st, panic |-> FALSE]
      [] s.tag = "Shared" /\ s.n # 1   -> [state |-> Cell_set(st, Shared(usize_sub(s.n, 1))),
                                           panic |-> FALSE]
      [] s.tag = "Exclusive"           -> [state |-> st, panic |-> TRUE]

Ref_drop(st) ==
    LET s == Cell_get(st) IN
    CASE s.tag = "Unused"              -> [state |-> st, panic |-> TRUE]
      [] s.tag = "Shared" /\ s.n = 1   -> [state |-> Cell_set(st, Unused), panic |-> FALSE]
      [] s.tag = "Shared" /\ s.n # 1   -> [state |-> Cell_set(st, Shared(usize_sub(s.n, 1))),
                                           panic |-> FALSE]
      [] s.tag = "Exclusive"           -> [state |-> st, panic |-> TRUE]

\* Mutant: the exclusive guard's drop does not reset the state.
RefMut_drop_noreset(st) ==
    LET s == Cell_get(st) IN
    CASE s.tag = "Unused"    -> [state |-> st, panic |-> TRUE]
      [] s.tag = "Shared"    -> [state |-> st, panic |-> TRUE]
      [] s.tag = "Exclusive" -> [state |-> st, panic |-> FALSE]

RefMut_drop(st) ==
    LET s == Cell_get(st) IN
    CASE s.tag = "Unused"    -> [state |-> st, panic |-> TRUE]
      [] s.tag = "Shared"    -> [state |-> st, panic |-> TRUE]
      [] s.tag = "Exclusive" -> [state |-> Cell_set(st, Unused), panic |-> FALSE]

\* <Ref as Deref>::deref and <RefMut as Deref>::deref: what *guard reads
\* when the wrapped value is val.
Ref_deref(val) == val

\* Mutant: the assignment through the guard does not reach the cell.
RefMut_deref_mut_lost(val, v) == val

\* <RefMut as DerefMut>::deref_mut: the wrapped value after *guard = v.
RefMut_deref_mut(val, v) == v

(***************************************************************************)
(* The record kept of the last call.                                       *)
(***************************************************************************)
Call(op, some, g, val) == [op |-> op, some |-> some, g |-> g, val |-> val]

(***************************************************************************)
(* RefCell::new(v) for any payload v, no guard handed out yet.             *)
(***************************************************************************)
RefCell_new ==
    /\ value    \in Values
    /\ state    = Cell_new(Unused)
    /\ guards   = [g \in GuardIds |-> "None"]
    /\ panicked = FALSE
    /\ last     = Call("new", FALSE, 0, value)
    /\ prev     = Call("none", FALSE, 0, 0)
    /\ written  = [val |-> value, by |-> 0]

(***************************************************************************)
(* The calls of a client program.  A guard returned by a successful call   *)
(* is stored in a free guard variable; a denied call returns None.         *)
(***************************************************************************)
borrow ==
    /\ ~panicked
    /\ LET r == RefCell_borrow(state) IN
       /\ state' = r.state
       /\ IF r.some
            THEN \E g \in GuardIds :
                    /\ guards[g] = "None"
                    /\ guards' = [guards EXCEPT ![g] = "Ref"]
                    /\ last'   = Call("borrow", TRUE, g, 0)
            ELSE /\ guards' = guards
                 /\ last'   = Call("borrow", FALSE, 0, 0)
    /\ prev' = last
    /\ UNCHANGED <<written, rcVars, cellVars>>
    /\ UNCHANGED <<value, panicked>>

borrow_mut ==
    /\ ~panicked
    /\ LET r == RefCell_borrow_mut(state) IN
       /\ state' = r.state
       /\ IF r.some
            THEN \E g \in GuardIds :
                    /\ guards[g] = "None"
                    /\ guards' = [guards EXCEPT ![g] = "RefMut"]
                    /\ last'   = Call("borrow_mut", TRUE, g, 0)
            ELSE /\ guards' = guards
                 /\ last'   = Call("borrow_mut", FALSE, 0, 0)
    /\ prev' = last
    /\ UNCHANGED <<written, rcVars, cellVars>>
    /\ UNCHANGED <<value, panicked>>

\* A Ref goes out of scope or is passed to drop(): <Ref as Drop>::drop runs.
drop_Ref ==
    /\ ~panicked
    /\ \E g \in GuardIds :
          /\ guards[g] = "Ref"
          /\ LET r == Ref_drop(state) IN
             /\ state'    = r.state
             /\ panicked' = r.panic
          /\ guards' = [guards EXCEPT ![g] = "None"]
          /\ last'   = Call("drop_Ref", FALSE, g, 0)
    /\ prev' = last
    /\ UNCHANGED <<written, rcVars, cellVars>>
    /\ UNCHANGED value

\* A RefMut goes out of scope or is passed to drop().
drop_RefMut ==
    /\ ~panicked
    /\ \E g \in GuardIds :
          /\ guards[g] = "RefMut"
          /\ LET r == RefMut_drop(state) IN
             /\ state'    = r.state
             /\ panicked' = r.panic
          /\ guards' = [guards EXCEPT ![g] = "None"]
          /\ last'   = Call("drop_RefMut", FALSE, g, 0)
    /\ prev' = last
    /\ UNCHANGED <<written, rcVars, cellVars>>
    /\ UNCHANGED value

\* *guard, through <Ref as Deref>::deref or <RefMut as Deref>::deref.
deref ==
    /\ ~panicked
    /\ \E g \in GuardIds :
          /\ guards[g] \in {"Ref", "RefMut"}
          /\ last' = Call("deref", TRUE, g, Ref_deref(value))
    /\ prev' = last
    /\ UNCHANGED <<written, rcVars, cellVars>>
    /\ UNCHANGED <<state, value, guards, panicked>>

\* *guard = v, through <RefMut as DerefMut>::deref_mut.
deref_mut ==
    /\ ~panicked
    /\ \E g \in GuardIds, v \in Values :
          /\ guards[g] = "RefMut"
          /\ value'   = RefMut_deref_mut(value, v)
          /\ written' = [val |-> v, by |-> g]
          /\ last'    = Call("deref_mut", TRUE, g, v)
    /\ prev' = last
    /\ UNCHANGED <<rcVars, cellVars>>
    /\ UNCHANGED <<state, guards, panicked>>

(***************************************************************************)
(* rc.rs: struct RcInner and the methods of Rc as functions of the block.  *)
(***************************************************************************)
RcInner(v, n) == [value |-> v, references |-> Cell_new(n)]

\* Rc::new: the block that goes into the Box.
Rc_new_inner(v) == RcInner(v, 1)

\* Mutant: clone hands out a new instance without counting it.
Rc_clone_inner_nocount(inner) == inner

\* Mutant: clone writes a default payload along with the new count.
Rc_clone_inner_reset(inner) ==
    LET n_references == Cell_get(inner.references) IN
    [value |-> 0, references |-> Cell_set(inner.references, usize_add(n_references, 1))]

\* <Rc as Clone>::clone: the block after the call.
Rc_clone_inner(inner) ==
    LET n_references == Cell_get(inner.references) IN
    [inner EXCEPT !.references = Cell_set(@, usize_add(n_references, 1))]

\* Mutant: a drop that is not the last one does not write the count back.
Rc_drop_inner_nowrite(inner) ==
    LET n_references == Cell_get(inner.references) IN
    IF n_references = 1
      THEN [free |-> TRUE,  inner |-> inner]
      ELSE [free |-> FALSE, inner |-> inner]

\* Mutant: the Box is dropped when the count read is 0, not 1.
Rc_drop_inner_zero(inner) ==
    LET n_references == Cell_get(inner.references) IN
    IF n_references = 0
      THEN [free |-> TRUE,  inner |-> inner]
      ELSE [free |-> FALSE,
            inner |-> [inner EXCEPT !.references =
                                        Cell_set(@, usize_sub(n_references, 1))]]

\* <Rc as Drop>::drop: whether the Box is dropped, and the block after the call.
Rc_drop_inner(inner) ==
    LET n_references == Cell_get(inner.references) IN
    IF n_references = 1
      THEN [free |-> TRUE,  inner |-> inner]
      ELSE [free |-> FALSE,
            inner |-> [inner EXCEPT !.references =
                                        Cell_set(@, usize_sub(n_references, 1))]]

\* <Rc as Deref>::deref
Rc_deref_inner(inner) == inner.value

\* Mutant: the payloads are compared, not the pointers.
Rc_ptr_eq_by_value(inner1, inner2) ==
    Rc_deref_inner(heap[inner1].inner) = Rc_deref_inner(heap[inner2].inner)

\* Rc::ptr_eq, on the two inner pointers
Rc_ptr_eq(inner1, inner2) == inner1 = inner2

(***************************************************************************)
(* The heap.  A deallocated address holds no block; reading it is          *)
(* undefined behaviour and may yield any block.                            *)
(***************************************************************************)
NoBlock == [alloc |-> FALSE, inner |-> RcInner(0, 0)]
Block(inner) == [alloc |-> TRUE, inner |-> inner]

\* What unsafe { self.inner.as_ref() } may see at address a.
as_ref(a) ==
    IF heap[a].alloc
      THEN {heap[a].inner}
      ELSE {RcInner(v, n) : v \in Payloads, n \in 0..(UsizeModulus - 1)}

\* The record kept of the last call on an Rc: the block's address, the count
\* the call read, the payload it returned, whether it deallocated the block.
RcCall(op, a, n, val, freed) ==
    [op |-> op, a |-> a, n |-> n, val |-> val, freed |-> freed]

Rc_init ==
    /\ heap   = [a \in Addrs |-> NoBlock]
    /\ rcs    = [h \in RcIds |-> 0]
    /\ origin = [h \in RcIds |-> 0]
    /\ frees  = [a \in Addrs |-> 0]
    /\ clones = [a \in Addrs |-> 0]
    /\ drops  = [a \in Addrs |-> 0]
    /\ ub     = FALSE
    /\ rcLast = RcCall("none", 0, 0, 0, FALSE)

\* The origin of an instance whose block is gone.
Dangling == -1

\* let h = Rc::new(v): Box::new returns any address that holds no block.
Rc_new ==
    /\ \E h \in RcIds, v \in Payloads, a \in Addrs :
          /\ rcs[h] = 0
          /\ ~heap[a].alloc
          /\ heap'   = [heap EXCEPT ![a] = Block(Rc_new_inner(v))]
          /\ rcs'    = [rcs EXCEPT ![h] = a]
          /\ origin' = [origin EXCEPT ![h] = a]
          /\ frees'  = [frees EXCEPT ![a] = 0]
          /\ clones' = [clones EXCEPT ![a] = 0]
          /\ drops'  = [drops EXCEPT ![a] = 0]
          /\ rcLast' = RcCall("new", a, 1, v, FALSE)
    /\ UNCHANGED ub
    /\ UNCHANGED <<refVars, cellVars>>

\* let h2 = Rc::clone(&h)
Rc_clone ==
    /\ \E h \in RcIds, h2 \in RcIds :
          /\ rcs[h] # 0
          /\ rcs[h2] = 0
          /\ LET a == rcs[h] IN
             /\ clones[a] < MaxClones
             /\ \E inner \in as_ref(a) :
                   /\ heap'   = [heap EXCEPT ![a] =
                                   IF @.alloc THEN Block(Rc_clone_inner(inner)) ELSE @]
                   /\ rcLast' = RcCall("clone", a, Cell_get(inner.references), 0, FALSE)
             /\ ub'     = (ub \/ ~heap[a].alloc)
             /\ rcs'    = [rcs EXCEPT ![h2] = a]
             /\ origin' = [origin EXCEPT ![h2] = origin[h]]
             /\ clones' = [clones EXCEPT ![a] = @ + 1]
    /\ UNCHANGED <<frees, drops>>
    /\ UNCHANGED <<refVars, cellVars>>

\* h goes out of scope or is passed to drop(): <Rc as Drop>::drop runs.
Rc_drop ==
    /\ \E h \in RcIds :
          /\ rcs[h] # 0
          /\ LET a == rcs[h] IN
             /\ \E inner \in as_ref(a) :
                   LET r == Rc_drop_inner(inner) IN
                   /\ heap'   = [heap EXCEPT ![a] =
                                   IF r.free THEN NoBlock
                                   ELSE IF @.alloc THEN Block(r.inner) ELSE @]
                   /\ frees'  = [frees EXCEPT ![a] = IF r.free THEN @ + 1 ELSE @]
                   /\ origin' = [k \in RcIds |->
                                   IF k = h THEN 0
                                   ELSE IF r.free /\ origin[k] = a THEN Dangling
                                   ELSE origin[k]]
                   /\ rcLast' = RcCall("drop", a, Cell_get(inner.references), 0, r.free)
             /\ ub'    = (ub \/ ~heap[a].alloc)
             /\ rcs'   = [rcs EXCEPT ![h] = 0]
             /\ drops' = [drops EXCEPT ![a] = @ + 1]
    /\ UNCHANGED clones
    /\ UNCHANGED <<refVars, cellVars>>

\* *h
Rc_deref ==
    /\ \E h \in RcIds :
          /\ rcs[h] # 0
          /\ LET a == rcs[h] IN
             /\ \E inner \in as_ref(a) :
                   rcLast' = RcCall("deref", a, 0, Rc_deref_inner(inner), FALSE)
             /\ ub' = (ub \/ ~heap[a].alloc)
    /\ UNCHANGED <<heap, rcs, origin, frees, clones, drops>>
    /\ UNCHANGED <<refVars, cellVars>>

\* Rc::ptr_eq(&h1, &h2).  The call is symmetric in its arguments, so it is
\* made with the variables in one order only.  The record kept of it: what
\* it returned, whether both instances were made for the same block, and
\* whether the payloads they dereference to are equal.
ptr_eq ==
    /\ \E h1 \in RcIds, h2 \in RcIds :
          /\ h1 <= h2
          /\ rcs[h1] # 0
          /\ rcs[h2] # 0
          /\ rcLast' = [op   |-> "ptr_eq",
                        eq   |-> Rc_ptr_eq(rcs[h1], rcs[h2]),
                        same |-> origin[h1] = origin[h2] /\ origin[h1] # Dangling,
                        veq  |-> heap[rcs[h1]].inner.value = heap[rcs[h2]].inner.value]
    /\ UNCHANGED <<heap, rcs, origin, frees, clones, drops, ub>>
    /\ UNCHANGED <<refVars, cellVars>>

\* mem::forget(Rc::clone(&h)): clone counts the new instance, and the instance
\* is then leaked, so that its drop never runs.
Rc_clone_forget ==
    /\ ~panicked
    /\ \E h \in RcIds :
          /\ rcs[h] # 0
          /\ LET a == rcs[h] IN
             /\ \E inner \in as_ref(a) :
                   /\ heap'   = [heap EXCEPT ![a] =
                                   IF @.alloc THEN Block(Rc_clone_inner(inner)) ELSE @]
                   /\ rcLast' = RcCall("clone", a, Cell_get(inner.references), 0, FALSE)
             /\ ub' = (ub \/ ~heap[a].alloc)
    /\ UNCHANGED <<rcs, origin, frees, clones, drops>>
    /\ UNCHANGED <<refVars, cellVars>>

\* Rc::clone(&h) in a build with overflow checks, when the count read is the
\* largest usize: n_references + 1 panics and nothing is stored.
Rc_clone_overflow_panic ==
    /\ ~panicked
    /\ \E h \in RcIds :
          /\ rcs[h] # 0
          /\ LET a == rcs[h] IN
             /\ heap[a].alloc
             /\ Cell_get(heap[a].inner.references) = UsizeModulus - 1
             /\ rcLast' = RcCall("clone", a, UsizeModulus - 1, 0, FALSE)
    /\ panicked' = TRUE
    /\ UNCHANGED <<heap, rcs, origin, frees, clones, drops, ub>>
    /\ UNCHANGED <<state, value, guards, last, prev, written>>
    /\ UNCHANGED cellVars

(***************************************************************************)
(* cell.rs: a client of one Cell.                                          *)
(***************************************************************************)
CellCall(op, val) == [op |-> op, val |-> val]

\* let cell = Cell::new(v)
Cell_init(v) ==
    /\ cell     = Cell_new(v)
    /\ cellSet  = v
    /\ cellLast = CellCall("new", v)
    /\ cellPrev = CellCall("none", 0)

\* cell.set(v)
set ==
    /\ \E v \in CellValues :
          /\ cell'     = Cell_set(cell, v)
          /\ cellSet'  = v
          /\ cellLast' = CellCall("set", v)
    /\ cellPrev' = cellLast
    /\ UNCHANGED <<refVars, rcVars>>

\* cell.get()
get ==
    /\ cellLast' = CellCall("get", Cell_get(cell))
    /\ cellPrev' = cellLast
    /\ UNCHANGED <<cell, cellSet>>
    /\ UNCHANGED <<refVars, rcVars>>

Init == RefCell_new /\ Rc_init /\ Cell_init(0)

\* The same, with the idle RefCell holding one fixed payload.
InitRc == Init /\ value = 0

NextRefCell ==
    \/ borrow
    \/ borrow_mut
    \/ drop_Ref
    \/ drop_RefMut
    \/ deref
    \/ deref_mut

SpecRefCell == Init /\ [][NextRefCell]_vars

NextRc ==
    \/ Rc_new
    \/ Rc_clone
    \/ Rc_drop
    \/ Rc_deref

SpecRc == InitRc /\ [][NextRc]_vars

NextPtrEq ==
    \/ Rc_new
    \/ Rc_clone
    \/ Rc_drop
    \/ ptr_eq

SpecPtrEq == InitRc /\ [][NextPtrEq]_vars

\* The Cell's client starts from Cell::new(v) for any v.
InitCell ==
    /\ RefCell_new /\ value = 0
    /\ Rc_init
    /\ \E v \in CellValues : Cell_init(v)

NextCell ==
    \/ set
    \/ get

SpecCell == InitCell /\ [][NextCell]_vars

\* A client that also leaks instances and keeps to one block at a time.  A
\* panic ends the program, and so does undefined behaviour.
NoBlockAllocated == \A a \in Addrs : ~heap[a].alloc
Running          == ~panicked /\ ~ub

NextRcLeak ==
    \/ Running /\ NoBlockAllocated /\ Rc_new
    \/ Running /\ Rc_clone
    \/ Running /\ Rc_drop
    \/ Running /\ Rc_clone_forget
    \/ Running /\ Rc_clone_overflow_panic

SpecRcLeak == InitRc /\ [][NextRcLeak]_vars

\* The Rc instances that reference the block at address a.
LiveRcs(a) == {h \in RcIds : rcs[h] = a}

(***************************************************************************)
(* The guards outstanding in a state.                                      *)
(***************************************************************************)
SharedGuards    == {g \in GuardIds : guards[g] = "Ref"}
ExclusiveGuards == {g \in GuardIds : guards[g] = "RefMut"}

(***************************************************************************)
(* Properties of RefCell                                                   *)
(***************************************************************************)
RefState_of(c) == Cell_get(c)

\* C1: in every reachable state the outstanding guards are either at most
\* one RefMut and no Ref, or any number of Ref and no RefMut.
C1_SharedXorExclusive ==
    \/ Cardinality(ExclusiveGuards) <= 1 /\ SharedGuards = {}
    \/ ExclusiveGuards = {}

\* Several shared guards are outstanding and an exclusive borrow was just tried.
C1_Witness ==
    /\ Cardinality(SharedGuards) >= 2
    /\ last.op = "borrow_mut"
    /\ prev.op = "borrow"

\* C5: borrow() from Unused succeeds into Shared(1), from Shared(n) succeeds
\* into Shared(n+1), and from Exclusive returns None without a transition.
C5_BorrowTable ==
    [][last'.op = "borrow" =>
        LET pre == RefState_of(state)  post == RefState_of(state') IN
        /\ pre.tag = "Unused" =>
              last'.some /\ post = Shared(1)
        /\ pre.tag = "Shared" =>
              last'.some /\ post = Shared(pre.n + 1)
        /\ pre.tag = "Exclusive" =>
              ~last'.some /\ post = pre
        /\ last'.some => guards[last'.g] = "None" /\ guards'[last'.g] = "Ref"
      ]_vars

\* A third shared borrow was just granted.
C5_Witness ==
    /\ last.op = "borrow" /\ last.some
    /\ RefState_of(state) = Shared(3)

\* C6: borrow_mut() from Unused succeeds into Exclusive; from Shared(n) and
\* from Exclusive it returns None without a transition.
C6_BorrowMutTable ==
    [][last'.op = "borrow_mut" =>
        LET pre == RefState_of(state)  post == RefState_of(state') IN
        /\ pre.tag = "Unused" =>
              last'.some /\ post = Exclusive
        /\ pre.tag \in {"Shared", "Exclusive"} =>
              ~last'.some /\ post = pre
        /\ last'.some => guards[last'.g] = "None" /\ guards'[last'.g] = "RefMut"
      ]_vars

\* An exclusive borrow was just denied over an exclusive guard.
C6_Witness ==
    /\ last.op = "borrow_mut" /\ ~last.some
    /\ RefState_of(state) = Exclusive
    /\ ExclusiveGuards # {}

\* C7: a denied borrow() or borrow_mut() returns None, does not panic, and
\* leaves the state tag, the value and the outstanding guards as they were.
C7_DeniedChangesNothing ==
    [][(last'.op \in {"borrow", "borrow_mut"} /\ ~last'.some) =>
        /\ state' = state
        /\ value' = value
        /\ guards' = guards
        /\ ~panicked'
      ]_vars

\* test_deref: one Ref was handed out and is live, borrow_mut was just denied.
C7_Witness ==
    /\ prev.op = "borrow" /\ prev.some
    /\ last.op = "borrow_mut" /\ ~last.some
    /\ RefState_of(state) = Shared(1)
    /\ Cardinality(SharedGuards) = 1

\* C8: while a RefMut is outstanding, every borrow() and every borrow_mut()
\* returns None.
C8_ExclusiveBlocks ==
    [][(ExclusiveGuards # {} /\ last'.op \in {"borrow", "borrow_mut"}) =>
        ~last'.some
      ]_vars

\* A shared borrow was just denied while the RefMut is still outstanding.
C8_Witness ==
    /\ last.op = "borrow" /\ ~last.some
    /\ ExclusiveGuards # {}

\* C9: dropping a Ref moves Shared(1) to Unused and Shared(n), n > 1, to
\* Shared(n-1); two outstanding Refs mean Shared(2), and dropping either
\* one leaves Shared(1), dropping the other Unused.
C9_RefDropTable ==
    [][last'.op = "drop_Ref" =>
        LET pre == RefState_of(state)  post == RefState_of(state') IN
        /\ ~panicked'
        /\ pre = Shared(1) => post = Unused
        /\ (pre.tag = "Shared" /\ pre.n > 1) => post = Shared(pre.n - 1)
        /\ Cardinality(SharedGuards) = 2 => pre = Shared(2) /\ post = Shared(1)
        /\ Cardinality(SharedGuards) = 1 => pre = Shared(1) /\ post = Unused
      ]_vars

\* Of two shared guards the second was dropped first, then the first.
C9_Witness ==
    /\ prev.op = "drop_Ref" /\ prev.g = 2
    /\ last.op = "drop_Ref" /\ last.g = 1
    /\ RefState_of(state) = Unused

\* C10: dropping the RefMut moves Exclusive to Unused, and the first
\* borrow() or borrow_mut() after that drop succeeds.
C10_RefMutDropFrees ==
    [][/\ last'.op = "drop_RefMut" =>
            /\ ~panicked'
            /\ RefState_of(state) = Exclusive
            /\ RefState_of(state') = Unused
       /\ (last.op = "drop_RefMut" /\ last'.op \in {"borrow", "borrow_mut"}) =>
            last'.some
      ]_vars

\* A borrow_mut succeeded right after the drop of an earlier RefMut.
C10_Witness ==
    /\ prev.op = "drop_RefMut"
    /\ last.op = "borrow_mut" /\ last.some
    /\ ExclusiveGuards # {}

(***************************************************************************)
(* Properties of Rc                                                        *)
(***************************************************************************)
references(a) == Cell_get(heap[a].inner.references)

\* C2: while instances of a block are live (N clones and M < N+1 drops since
\* its Rc::new), the stored count is 1 + N - M, the number of live instances.
C2_CountIsLiveInstances ==
    \A a \in Addrs :
        (LiveRcs(a) # {} /\ drops[a] < clones[a] + 1) =>
            /\ heap[a].alloc
            /\ references(a) = 1 + clones[a] - drops[a]
            /\ references(a) = Cardinality(LiveRcs(a))

\* Two clones and one drop later the block is shared by two instances.
C2_Witness ==
    \E a \in Addrs :
        /\ clones[a] = 2 /\ drops[a] = 1
        /\ rcLast.op = "drop" /\ rcLast.a = a
        /\ references(a) = 2

\* C3: once the original and all clones are dropped the block has been
\* deallocated exactly once; the deallocation happens in the drop of the last
\* live instance, which reads count 1, and in no other call.
C3_FreedExactlyOnce ==
    /\ [](\A a \in Addrs :
              /\ frees[a] <= 1
              /\ (drops[a] > 0 /\ LiveRcs(a) = {}) =>
                     frees[a] = 1 /\ ~heap[a].alloc)
    /\ [][\A a \in Addrs :
              frees'[a] > frees[a] =>
                  /\ rcLast'.op = "drop" /\ rcLast'.a = a
                  /\ rcLast'.n = 1
                  /\ Cardinality(LiveRcs(a)) = 1
                  /\ Cardinality({h \in RcIds : rcs'[h] = a}) = 0
         ]_vars

\* The original and two clones were dropped, the last drop freed the block.
C3_Witness ==
    \E a \in Addrs :
        /\ clones[a] = 2 /\ drops[a] = 3
        /\ rcLast.op = "drop" /\ rcLast.a = a /\ rcLast.freed
        /\ frees[a] = 1 /\ ~heap[a].alloc

\* C4: every live Rc instance references a block that is allocated, and no
\* deref, clone or drop has touched a deallocated block.
C4_NoUseAfterFree ==
    /\ ~ub
    /\ \A h \in RcIds : rcs[h] # 0 => heap[rcs[h]].alloc

\* An instance is dereferenced after another instance of its block was
\* dropped and after the other block was deallocated.
C4_Witness ==
    \E a \in Addrs, b \in Addrs :
        /\ a # b
        /\ rcLast.op = "deref" /\ rcLast.a = a
        /\ drops[a] >= 1 /\ LiveRcs(a) # {}
        /\ frees[b] = 1 /\ ~heap[b].alloc

\* C11: no unreachable!() is ever executed: a Ref is dropped only while the
\* state is Shared(n) with n >= 1, a RefMut only while it is Exclusive.
C11_DropsNeverPanic ==
    /\ []~panicked
    /\ [][/\ last'.op = "drop_Ref" =>
                RefState_of(state).tag = "Shared" /\ RefState_of(state).n >= 1
          /\ last'.op = "drop_RefMut" =>
                RefState_of(state) = Exclusive
         ]_vars

\* One of three shared guards was dropped right after the third was handed out.
C11_Witness ==
    /\ prev.op = "borrow" /\ prev.some
    /\ last.op = "drop_Ref"
    /\ Cardinality(SharedGuards) = 2
    /\ ~panicked

\* C12: every read through a guard yields the value last written through an
\* exclusive guard, or the value RefCell::new was given if none was written.
C12_ReadsLastWrite ==
    /\ [](last.op = "deref" => last.val = written.val)
    /\ [](value = written.val)
    /\ [][last'.op # "deref_mut" => value' = value]_vars

\* A value was written through a RefMut, that guard is gone, and the value
\* was just read through a Ref handed out later.
C12_Witness ==
    /\ written.by # 0
    /\ last.op = "deref" /\ guards[last.g] = "Ref"
    /\ last.val = written.val
    /\ prev.op = "borrow"

\* C13: Rc::ptr_eq is true exactly when both instances were made for the same
\* block, by Rc::new or by a clone of a clone of it, whatever their payloads.
C13_PtrEqIsIdentity ==
    rcLast.op = "ptr_eq" => (rcLast.eq <=> rcLast.same)

\* ptr_eq was just false for live instances of two Rc::new calls that hold
\* equal payloads, while one of the blocks is shared with a clone.
C13_Witness ==
    /\ rcLast.op = "ptr_eq" /\ ~rcLast.eq /\ rcLast.veq
    /\ \A a \in Addrs : heap[a].alloc
    /\ \E a \in Addrs : Cardinality(LiveRcs(a)) = 2

\* C14: a clone that reads the largest usize as the count panics instead of
\* storing a wrapped count, and no drop computes count - 1 from a count of 0.
C14_OverflowIsFatal ==
    [][/\ (rcLast'.op = "clone" /\ rcLast'.n = UsizeModulus - 1) =>
              /\ panicked'
              /\ heap' = heap
       /\ rcLast'.op = "drop" => rcLast'.n # 0
      ]_vars

(***************************************************************************)
(* Properties of RefCell over whole guard lifetimes                        *)
(***************************************************************************)
\* C17: the state tag records exactly the outstanding guards: Unused iff
\* there is none, Shared(n) iff there are n >= 1 Refs and no RefMut, Exclusive
\* iff there is one RefMut and no Ref; Shared(0) is never stored.
C17_TagCountsGuards ==
    LET s == RefState_of(state) IN
    /\ s.tag = "Unused"    <=> (SharedGuards = {} /\ ExclusiveGuards = {})
    /\ s.tag = "Shared"    <=> (SharedGuards # {} /\ ExclusiveGuards = {})
    /\ s.tag = "Exclusive" <=> (SharedGuards = {} /\ Cardinality(ExclusiveGuards) = 1)
    /\ s.tag = "Shared"    =>  (s.n >= 1 /\ s.n = Cardinality(SharedGuards))

\* Two shared guards are left after a third was dropped, the tag is Shared(2).
C17_Witness ==
    /\ last.op = "drop_Ref"
    /\ prev.op = "deref"
    /\ Cardinality(SharedGuards) = 2
    /\ RefState_of(state) = Shared(2)

\* C18: once every guard handed out has been dropped the tag is Unused again
\* and the next borrow_mut() succeeds.
C18_NoPermissionLeak ==
    /\ []((SharedGuards = {} /\ ExclusiveGuards = {}) => RefState_of(state) = Unused)
    /\ [][(SharedGuards = {} /\ ExclusiveGuards = {} /\ last'.op = "borrow_mut") =>
              /\ last'.some
              /\ RefState_of(state') = Exclusive
         ]_vars

\* After an exclusive guard that wrote and shared guards that came later were
\* all dropped, borrow_mut succeeded.
C18_Witness ==
    /\ written.by # 0
    /\ prev.op = "drop_Ref"
    /\ last.op = "borrow_mut" /\ last.some
    /\ Cardinality(ExclusiveGuards) = 1

(***************************************************************************)
(* Properties of Cell                                                      *)
(***************************************************************************)
\* C15: get() returns the value of the most recent set, or the value given to
\* Cell::new if there was none; set(v) stores v; get() changes nothing.
C15_GetReturnsLastSet ==
    /\ [](cellLast.op = "get" => cellLast.val = cellSet)
    /\ [][cellLast'.op = "set" => Cell_get(cell') = cellLast'.val]_vars
    /\ [][cellLast'.op = "get" => cell' = cell]_vars

\* A get made right after set(MaxCellValue) returned that value.
C15_Witness ==
    /\ cellPrev.op = "set"
    /\ cellLast.op = "get"
    /\ cellLast.val = cellPrev.val
    /\ cellLast.val = MaxCellValue

(***************************************************************************)
(* The frame of Rc::clone and of an Rc drop that is not the last one       *)
(***************************************************************************)
\* C19: a clone, and a drop that does not free, change nothing but the count
\* of the block they act on: no block is allocated or deallocated, the
\* payload of every block stays what it was, and every other block is left as
\* it was.
C19_CloneAndDropFrame ==
    [][(rcLast'.op \in {"clone", "drop"} /\ ~rcLast'.freed) =>
          LET a == rcLast'.a IN
          /\ \A b \in Addrs : heap'[b].alloc = heap[b].alloc
          /\ \A h \in RcIds : rcs[h] # 0 =>
                Rc_deref_inner(heap'[rcs[h]].inner) = Rc_deref_inner(heap[rcs[h]].inner)
          /\ \A b \in Addrs \ {a} : heap'[b] = heap[b]
          /\ frees' = frees
          /\ heap'[a] = [heap[a] EXCEPT !.inner.references = heap'[a].inner.references]
      ]_<<heap, rcs, origin, frees, clones, drops, ub, rcLast>>

\* A block with a non-default payload was cloned while another block with a
\* different payload was allocated.
C19_Witness ==
    /\ rcLast.op = "clone"
    /\ \A b \in Addrs : heap[b].alloc
    /\ heap[rcLast.a].inner.value = MaxPayload
    /\ \E b \in Addrs : heap[b].inner.value # MaxPayload
    /\ references(rcLast.a) = 2

====
